---- MODULE Spec2Model ----
(***************************************************************************)
(* A model of the transcript engine of YouTubeTranscriptCrawlilng.py: the  *)
(* raw-record normalizers, the paragraph reconstructor and the renderers;  *)
(* and of the fallback chains of main in Merging_m3u8.py and PDFUnlock.py. *)
(*                                                                         *)
(* A Python str is a sequence of one-character strings, so that cleaning,  *)
(* parsing and formatting are computed character by character.  Python's   *)
(* None is the one-element tuple None, which no text equals.  An optional  *)
(* number (prev_secs) is <<>> for None and <<n>> for the number n.         *)
(***************************************************************************)
EXTENDS Integers, Sequences, FiniteSets, TLC

VARIABLES
    pc,              \* which function runs, and where it stands
    segments,        \* segments_to_paragraphs: the segments consumed so far
    gap_threshold,   \* segments_to_paragraphs: parameter
    max_chars,       \* segments_to_paragraphs: parameter
    keep_timestamps, \* segments_to_paragraphs: parameter
    paras,           \* segments_to_paragraphs: the output list
    buf,             \* segments_to_paragraphs: the buffer of pieces
    para_start_ts,   \* segments_to_paragraphs: start timestamp of the buffer
    prev_secs,       \* segments_to_paragraphs: seconds of the last piece
    flushed,         \* history: per paragraph, what was flushed and from where
    cur_segs,        \* history: indices of the segments now in the buffer
    raw,             \* normalizers: the raw records or elements consumed so far
    out,             \* normalizers: the output list (out, segments at line 61)
    out_src,         \* history: for each output segment, the index of its record
    rsegs,           \* renderers: the segments passed in
    norm,            \* to_srt: the list norm of lines 266-273
    lines,           \* renderers: srt_lines of to_srt, lines of to_plain_text
    result,          \* renderers: the str returned, None before the return
    ts_arg,          \* _ts_to_secs: the argument ts
    ts_parts,        \* history: the parts ts_arg was written from
    ts_secs,         \* _ts_to_secs: <<>> before the return, <<value>> after
    globbed,         \* Merging_m3u8: the paths the glob of line 88 matches
    m3u8s,           \* Merging_m3u8: the sorted list of line 88
    mp4,             \* Merging_m3u8: args.mp4
    reencode,        \* Merging_m3u8: args.reencode
    done,            \* Merging_m3u8: how many playlists the loop has finished
    failures,        \* Merging_m3u8: the counter of line 93
    merge_tried,     \* history: the ffmpeg runs so far, with their outcomes
    merge_exit,      \* Merging_m3u8: <<>> while running, <<status>> at exit
    argc,            \* PDFUnlock: len(sys.argv)
    infile_exists,   \* PDFUnlock: os.path.isfile(infile)
    gs_files,        \* PDFUnlock: the common_paths that are files
    path_idx,        \* PDFUnlock: the position of the loop of line 105
    unlock_tried,    \* history: the methods tried so far, with their outcomes
    unlock_exit      \* PDFUnlock: <<>> while running, <<status>> at exit

pvars == <<segments, gap_threshold, max_chars, keep_timestamps, paras, buf,
           para_start_ts, prev_secs, flushed, cur_segs>>

nvars == <<raw, out, out_src>>

rvars == <<rsegs, norm, lines, result>>

tvars == <<ts_arg, ts_parts, ts_secs>>

mvars == <<globbed, m3u8s, mp4, reencode, done, failures, merge_tried,
           merge_exit>>

uvars == <<argc, infile_exists, gs_files, path_idx, unlock_tried, unlock_exit>>

\* the variables of _ts_to_secs called alone and of the two command-line
\* programs, which the transcript functions leave alone
ovars == <<tvars, mvars, uvars>>

vars == <<pc, pvars, nvars, rvars, ovars>>

(***************************************************************************)
(* Bounds of the model.                                                    *)
(***************************************************************************)
MaxSegs == 3

MaxRaw == 2

MaxCues == 3

(***************************************************************************)
(* Python values and str methods.                                          *)
(***************************************************************************)
None == <<"None">>

\* `x or ""` for x a str or None
OrEmpty(x) == IF x = None THEN <<>> ELSE x

Whitespace == {" ", "\n", "\r", "\t"}

Last(s) == s[Len(s)]

RECURSIVE LStrip(_, _)
LStrip(s, chars) ==
    IF s # <<>> /\ Head(s) \in chars THEN LStrip(Tail(s), chars) ELSE s

RECURSIVE RStrip(_, _)
RStrip(s, chars) ==
    IF s # <<>> /\ Last(s) \in chars
    THEN RStrip(SubSeq(s, 1, Len(s) - 1), chars)
    ELSE s

\* str.strip(chars); str.strip() is StripChars(s, Whitespace)
StripChars(s, chars) == LStrip(RStrip(s, chars), chars)

\* "".join(list)
RECURSIVE Join(_)
Join(list) == IF list = <<>> THEN <<>> ELSE Head(list) \o Join(Tail(list))

\* sum(len(x) for x in list)
RECURSIVE SumLen(_)
SumLen(list) == IF list = <<>> THEN 0 ELSE Len(Head(list)) + SumLen(Tail(list))

\* str.split(sep) for a one-character sep: always at least one part
RECURSIVE Split(_, _)
Split(s, sep) ==
    IF s = <<>> THEN << <<>> >>
    ELSE LET rest == Split(Tail(s), sep)
         IN IF Head(s) = sep
            THEN << <<>> >> \o rest
            ELSE << <<Head(s)>> \o Head(rest) >> \o Tail(rest)

\* str.count(c) for a one-character c
RECURSIVE Count(_, _)
Count(s, c) ==
    IF s = <<>> THEN 0
    ELSE (IF Head(s) = c THEN 1 ELSE 0) + Count(Tail(s), c)

Digits == {"0", "1", "2", "3", "4", "5", "6", "7", "8", "9"}

DigitVal(c) ==
    CASE c = "0" -> 0 [] c = "1" -> 1 [] c = "2" -> 2 [] c = "3" -> 3
      [] c = "4" -> 4 [] c = "5" -> 5 [] c = "6" -> 6 [] c = "7" -> 7
      [] c = "8" -> 8 [] c = "9" -> 9

DigitChar(d) ==
    CASE d = 0 -> "0" [] d = 1 -> "1" [] d = 2 -> "2" [] d = 3 -> "3"
      [] d = 4 -> "4" [] d = 5 -> "5" [] d = 6 -> "6" [] d = 7 -> "7"
      [] d = 8 -> "8" [] d = 9 -> "9"

RECURSIVE DigitsVal(_, _)
DigitsVal(s, acc) ==
    IF s = <<>> THEN acc ELSE DigitsVal(Tail(s), acc * 10 + DigitVal(Head(s)))

\* the text int() reads: surrounding whitespace is ignored
IntBody(s) == StripChars(s, Whitespace)

IntUnsigned(s) ==
    LET b == IntBody(s)
    IN IF b # <<>> /\ Head(b) \in {"+", "-"} THEN Tail(b) ELSE b

\* whether int(s) returns; it raises ValueError otherwise.  The digits may
\* be grouped by single underscores
IntOk(s) ==
    LET u == IntUnsigned(s)
    IN /\ u # <<>>
       /\ \A k \in 1..Len(u) : u[k] \in Digits \cup {"_"}
       /\ u[1] # "_" /\ u[Len(u)] # "_"
       /\ \A k \in 1..(Len(u) - 1) : ~(u[k] = "_" /\ u[k + 1] = "_")

\* int(s), where IntOk(s)
IntVal(s) ==
    LET b == IntBody(s)
        v == DigitsVal(SelectSeq(IntUnsigned(s), LAMBDA c : c # "_"), 0)
    IN IF Head(b) = "-" THEN 0 - v ELSE v

RECURSIVE NatStr(_)
NatStr(n) ==
    IF n < 10 THEN <<DigitChar(n)>>
    ELSE NatStr(n \div 10) \o <<DigitChar(n % 10)>>

RECURSIVE ZeroPad(_, _)
ZeroPad(s, width) == IF Len(s) >= width THEN s ELSE ZeroPad(<<"0">> \o s, width)

\* format(n, "0Wd"): the sign counts in the width, zeros go after the sign
FormatD(n, width) ==
    IF n < 0 THEN <<"-">> \o ZeroPad(NatStr(0 - n), width - 1)
    ELSE ZeroPad(NatStr(n), width)

(***************************************************************************)
(* Paragraph reconstruction.                                               *)
(***************************************************************************)
\* A character outside ASCII is written by its code point: "U+3002" is the
\* ideographic full stop, one character of the text.
END_PUNCT == {"U+3002", "U+FF01", "U+FF1F", "!", "?", "U+2026"}

\* end_punct + the clause punctuation of line 375: the characters after
\* which no joiner space is added
JoinerPunct ==
    END_PUNCT \cup {"U+FF0C", ",", "U+3002", "U+FF0E", ".", "U+3001", ";",
                    "U+FF1B", ":", "U+FF1A"}

MinFlushLen == 30

DefaultMaxChars == 220

DefaultGap == 2

\* lines 304-313: the seconds of the parts, -1 when int() raises or when
\* the parts are not two or three
PartsToSecs(parts) ==
    IF Len(parts) = 2
    THEN IF IntOk(parts[1]) /\ IntOk(parts[2])
         THEN IntVal(parts[1]) * 60 + IntVal(parts[2])
         ELSE -1
    ELSE IF Len(parts) = 3
    THEN IF IntOk(parts[1]) /\ IntOk(parts[2]) /\ IntOk(parts[3])
         THEN IntVal(parts[1]) * 3600 + IntVal(parts[2]) * 60 + IntVal(parts[3])
         ELSE -1
    ELSE -1

\* line 302: ts.strip().strip("[]")
TsBody(ts) == StripChars(StripChars(ts, Whitespace), {"[", "]"})

\* 0 for a missing timestamp
TsToSecsMissingZero(ts) ==
    IF ts = None \/ ts = <<>> THEN 0 ELSE PartsToSecs(Split(TsBody(ts), ":"))

\* _ts_to_secs: 'M:SS' or 'HH:MM:SS' -> seconds, -1 if missing or invalid
_ts_to_secs(ts) ==
    IF ts = None \/ ts = <<>> THEN -1 ELSE PartsToSecs(Split(TsBody(ts), ":"))

\* re.sub(r"\s+", " ", t): every run of whitespace becomes one space
RECURSIVE CollapseWs(_)
CollapseWs(t) ==
    IF t = <<>> THEN <<>>
    ELSE IF Head(t) \in Whitespace
         THEN <<" ">> \o CollapseWs(LStrip(t, Whitespace))
         ELSE <<Head(t)>> \o CollapseWs(Tail(t))

_clean_piece(text) ==
    LET t == [k \in 1..Len(text) |->
                 IF text[k] \in {"\n", "\r"} THEN " " ELSE text[k]]
    IN StripChars(CollapseWs(t), Whitespace)

\* the break also after a piece whose timestamp is unknown
GapBreakPrevUnknown(prev, secs, gap) ==
    /\ prev # <<>>
    /\ secs >= 0
    /\ secs - prev[1] > gap

GapBreakAtThreshold(prev, secs, gap) ==
    /\ prev # <<>>
    /\ secs >= 0
    /\ prev[1] >= 0
    /\ secs - prev[1] >= gap

\* the time-gap break of lines 350-352
GapBreak(prev, secs, gap) ==
    /\ prev # <<>>
    /\ secs >= 0
    /\ prev[1] >= 0
    /\ secs - prev[1] > gap

\* the break only above max_chars
LengthBreakAbove(should_break, b, maxc) ==
    ~should_break /\ b # <<>> /\ SumLen(b) > maxc

\* the soft length break of lines 355-356
LengthBreak(should_break, b, maxc) ==
    ~should_break /\ b # <<>> /\ SumLen(b) >= maxc

FlushOnBreak(should_break, b) == should_break

\* line 359: the previous paragraph is finalized only from a non-empty buffer
FlushNeeded(should_break, b) == should_break /\ b # <<>>

\* a start kept as seconds and tested for truth loses the start at 0:00
ParaTextZeroFalsy(b, start_ts, keep) ==
    LET para_text == StripChars(Join(b), Whitespace)
    IN IF keep /\ start_ts # None /\ _ts_to_secs(start_ts) > 0
       THEN <<"[">> \o start_ts \o <<"]", " ">> \o para_text
       ELSE para_text

\* lines 360-364 (and 383-387, 393-397): the text appended to paras
ParaText(b, start_ts, keep) ==
    LET para_text == StripChars(Join(b), Whitespace)
    IN IF keep /\ start_ts # None /\ start_ts # <<>>
       THEN <<"[">> \o start_ts \o <<"]", " ">> \o para_text
       ELSE para_text

BufKeptAfterFlush(flush, b) == b

\* lines 365 and 388: buf = [] after a flush
BufAfterFlush(flush, b) == IF flush THEN <<>> ELSE b

\* the start is taken from the first piece that has a timestamp
NewParaStartFirstKnown(b, ts, secs, start_ts) ==
    IF b = <<>> \/ start_ts = None
    THEN (IF secs >= 0 THEN ts ELSE None)
    ELSE start_ts

\* lines 369-370: a new paragraph takes the timestamp of its first piece
NewParaStart(b, ts, secs, start_ts) ==
    IF b = <<>> THEN (IF secs >= 0 THEN ts ELSE None) ELSE start_ts

\* lines 373-377: the joiner space, then the piece
AppendPiece(b, piece) ==
    IF b # <<>> /\ Last(Last(b)) \notin JoinerPunct
    THEN b \o << <<" ">>, piece >>
    ELSE Append(b, piece)

\* a length check after the append: the flush for any last character
EagerFlushOnLength(piece, b) == piece # <<>> /\ SumLen(b) >= MinFlushLen

\* the flush also after clause punctuation, the comma included
EagerFlushOnClause(piece, b) ==
    piece # <<>> /\ Last(piece) \in JoinerPunct /\ SumLen(b) >= MinFlushLen

\* line 382: the eager punctuation flush
EagerFlush(piece, b) ==
    piece # <<>> /\ Last(piece) \in END_PUNCT /\ SumLen(b) >= MinFlushLen

\* the previous timestamp follows every segment, the skipped ones too
PrevSecsOfEverySegment(piece, prev, secs) == <<secs>>

\* lines 343-344 and 379: prev_secs after an iteration; the continue of an
\* empty piece comes before the assignment
PrevSecsAfter(piece, prev, secs) == IF piece = <<>> THEN prev ELSE <<secs>>

\* what a flush records: the buffer, the segments it came from, its start
\* timestamp and the place of the flush ("gap", "length", "eager", "final")
FlushRec(b, segs, start_ts, by) ==
    [buf |-> b, segs |-> segs, start |-> start_ts, by |-> by]

(***************************************************************************)
(* The inputs of the paragraph pass.                                       *)
(***************************************************************************)
Rep(c, n) == [k \in 1..n |-> c]

ParaTexts ==
    { <<" ", "\n", " ">>,                 \* empty once cleaned
      <<"a", " ", "\r", "\n", "b">>,      \* cleaned to "a b"
      Rep("w", 15) \o <<"?">>,            \* 16 characters, ends a sentence
      Rep("c", 15) \o <<",">> }           \* 16 characters, ends a clause

ParaTimestamps ==
    { None,
      <<"0", ":", "0", "0">>,
      <<"0", ":", "0", "3">> }

ParaSegments == [timestamp : ParaTimestamps, text : ParaTexts]

\* below, at and above the gaps of the timestamps, which are 0 and 3 seconds
GapThresholds == {-1, 0, 3}

MaxCharsValues == {7, DefaultMaxChars}

\* the normalizers at rest
IdleNorm == raw = <<>> /\ out = <<>> /\ out_src = <<>>

\* the renderers at rest
IdleRender == rsegs = <<>> /\ norm = <<>> /\ lines = <<>> /\ result = None

\* _ts_to_secs, called alone, at rest
IdleTs == ts_arg = None /\ ts_parts = <<>> /\ ts_secs = <<>>

\* Merging_m3u8 at rest
IdleMerge ==
    /\ globbed = {}
    /\ m3u8s = <<>>
    /\ mp4 = TRUE
    /\ reencode = FALSE
    /\ done = 0
    /\ failures = 0
    /\ merge_tried = <<>>
    /\ merge_exit = <<>>

\* PDFUnlock at rest
IdleUnlock ==
    /\ argc = 1
    /\ infile_exists = FALSE
    /\ gs_files = {}
    /\ path_idx = 0
    /\ unlock_tried = <<>>
    /\ unlock_exit = <<>>

IdleOthers == IdleTs /\ IdleMerge /\ IdleUnlock

InitPara ==
    /\ pc = "loop"
    /\ IdleNorm
    /\ IdleRender
    /\ IdleOthers
    /\ segments = <<>>
    /\ gap_threshold \in GapThresholds
    /\ max_chars \in MaxCharsValues
    /\ keep_timestamps \in BOOLEAN
    /\ paras = <<>>
    /\ buf = <<>>
    /\ para_start_ts = None
    /\ prev_secs = <<>>
    /\ flushed = <<>>
    /\ cur_segs = <<>>

\* one iteration of the loop of lines 339-389, on the next segment
LoopIter(seg) ==
    /\ pc = "loop"
    /\ Len(segments) < MaxSegs
    /\ segments' = Append(segments, seg)
    /\ LET ts == OrEmpty(seg.timestamp)
           secs == _ts_to_secs(ts)
           piece == _clean_piece(OrEmpty(seg.text))
           gap_break == GapBreak(prev_secs, secs, gap_threshold)
           should_break ==
               gap_break \/ LengthBreak(gap_break, buf, max_chars)
           flush1 == FlushNeeded(should_break, buf)
           paras1 ==
               IF flush1
               THEN Append(paras, ParaText(buf, para_start_ts, keep_timestamps))
               ELSE paras
           flushed1 ==
               IF flush1
               THEN Append(flushed,
                           FlushRec(buf, cur_segs, para_start_ts,
                                    IF gap_break THEN "gap" ELSE "length"))
               ELSE flushed
           buf1 == BufAfterFlush(flush1, buf)
           segs1 == IF flush1 THEN <<>> ELSE cur_segs
           start1 == IF flush1 THEN None ELSE para_start_ts
           start2 == NewParaStart(buf1, ts, secs, start1)
           buf2 == AppendPiece(buf1, piece)
           segs2 == Append(segs1, Len(segments) + 1)
           flush2 == EagerFlush(piece, buf2)
       IN /\ prev_secs' = PrevSecsAfter(piece, prev_secs, secs)
          /\ IF piece = <<>>
             THEN UNCHANGED <<paras, buf, para_start_ts, flushed, cur_segs>>
             ELSE
               /\ paras' =
                      IF flush2
                      THEN Append(paras1,
                                  ParaText(buf2, start2, keep_timestamps))
                      ELSE paras1
               /\ flushed' =
                      IF flush2
                      THEN Append(flushed1, FlushRec(buf2, segs2, start2, "eager"))
                      ELSE flushed1
               /\ buf' = BufAfterFlush(flush2, buf2)
               /\ cur_segs' = IF flush2 THEN <<>> ELSE segs2
               /\ para_start_ts' = IF flush2 THEN None ELSE start2
    /\ UNCHANGED <<pc, gap_threshold, max_chars, keep_timestamps, nvars, rvars,
                   ovars>>

\* lines 391-399: the input is exhausted, the remaining buffer is flushed
FinalFlush ==
    /\ pc = "loop"
    /\ pc' = "done"
    /\ paras' =
           IF buf # <<>>
           THEN Append(paras, ParaText(buf, para_start_ts, keep_timestamps))
           ELSE paras
    /\ flushed' =
           IF buf # <<>>
           THEN Append(flushed, FlushRec(buf, cur_segs, para_start_ts, "final"))
           ELSE flushed
    /\ UNCHANGED <<segments, gap_threshold, max_chars, keep_timestamps, buf,
                   para_start_ts, prev_secs, cur_segs, nvars,
                   rvars, ovars>>

NextPara ==
    \/ \E seg \in ParaSegments : LoopIter(seg)
    \/ FinalFlush

Spec == InitPara /\ [][NextPara]_vars

\* segments_to_paragraphs as a function of its arguments: the loop of lines
\* 339-389 from the state st = (paras, buf, start, prev) over the segments
\* left, then the final flush of lines 392-399
RECURSIVE ParagraphsFrom(_, _, _, _, _)
ParagraphsFrom(st, segs, gap, maxc, keep) ==
    IF segs = <<>>
    THEN IF st.buf # <<>>
         THEN Append(st.paras, ParaText(st.buf, st.start, keep))
         ELSE st.paras
    ELSE LET seg == Head(segs)
             ts == OrEmpty(seg.timestamp)
             secs == _ts_to_secs(ts)
             piece == _clean_piece(OrEmpty(seg.text))
             gap_break == GapBreak(st.prev, secs, gap)
             should_break == gap_break \/ LengthBreak(gap_break, st.buf, maxc)
             flush1 == FlushNeeded(should_break, st.buf)
             paras1 == IF flush1
                       THEN Append(st.paras, ParaText(st.buf, st.start, keep))
                       ELSE st.paras
             buf1 == BufAfterFlush(flush1, st.buf)
             start1 == IF flush1 THEN None ELSE st.start
             start2 == NewParaStart(buf1, ts, secs, start1)
             buf2 == AppendPiece(buf1, piece)
             flush2 == EagerFlush(piece, buf2)
             next == IF piece = <<>>
                     THEN [st EXCEPT
                              !.prev = PrevSecsAfter(piece, st.prev, secs)]
                     ELSE [paras |-> IF flush2
                                     THEN Append(paras1, ParaText(buf2, start2, keep))
                                     ELSE paras1,
                           buf |-> BufAfterFlush(flush2, buf2),
                           start |-> IF flush2 THEN None ELSE start2,
                           prev |-> PrevSecsAfter(piece, st.prev, secs)]
         IN ParagraphsFrom(next, Tail(segs), gap, maxc, keep)

segments_to_paragraphs(segs, gap, maxc, keep) ==
    ParagraphsFrom([paras |-> <<>>, buf |-> <<>>, start |-> None, prev |-> <<>>],
                   segs, gap, maxc, keep)

(***************************************************************************)
(* The normalizers: _normalize_segments and extract_from_html.             *)
(*                                                                         *)
(* A raw value is a record: [t |-> "absent"] for a missing key, attribute  *)
(* or element, [t |-> "none"] for None, [t |-> "num", num |-> n] for the   *)
(* number n/10 (numbers are kept in tenths of a second, so that rounding   *)
(* is computed), [t |-> "str", str |-> s] for the str s.                   *)
(***************************************************************************)
Absent == [t |-> "absent"]

NoneVal == [t |-> "none"]

Num(tenths) == [t |-> "num", num |-> tenths]

Str(s) == [t |-> "str", str |-> s]

\* the truth value of a raw value, as `x or default` tests it
Truthy(x) ==
    CASE x.t = "num" -> x.num # 0
      [] x.t = "str" -> x.str # <<>>
      [] OTHER -> FALSE

\* whether float(x) returns: None raises TypeError, a str that is no number
\* raises ValueError (the strs of the model hold no ".", "e", "inf", "nan")
FloatOk(x) ==
    CASE x.t = "num" -> TRUE
      [] x.t = "str" -> IntOk(x.str)
      [] OTHER -> FALSE

\* float(x) in tenths, where FloatOk(x)
FloatVal(x) == IF x.t = "num" THEN x.num ELSE IntVal(x.str) * 10

\* int(round(f)) for f in tenths: round-half-to-even
RoundTenths(f) ==
    LET lo == f \div 10
        r == f % 10
    IN IF r < 5 THEN lo
       ELSE IF r > 5 THEN lo + 1
       ELSE IF lo % 2 = 0 THEN lo ELSE lo + 1

\* sec_to_hms of lines 89-94
sec_to_hms(f) ==
    LET sec == RoundTenths(f)
        h == sec \div 3600
        m == (sec % 3600) \div 60
        sc == sec % 60
    IN FormatD(h, 2) \o <<":">> \o FormatD(m, 2) \o <<":">> \o FormatD(sc, 2)

\* whether x.replace("\n", " ").strip() returns: x must be a str
TextOk(x) == x.t = "str"

\* text.replace("\n", " ").strip() of lines 101, 108, 118
ReplaceStrip(s) ==
    StripChars([k \in 1..Len(s) |-> IF s[k] = "\n" THEN " " ELSE s[k]],
               Whitespace)

\* `x or ""`, `x or 0.0`
OrDefault(x, default) == IF Truthy(x) THEN x ELSE default

\* i.get(key, default), getattr(i, key, default)
GetOr(x, default) == IF x.t = "absent" THEN default ELSE x

\* The start and text expressions of one record, before float() and
\* .replace(); "skip" when the record is passed over (lines 116 and 120).
Extracted(rec) ==
    CASE rec.shape = "dict" ->
           [kind |-> "record",
            start |-> GetOr(rec.start, Num(0)),
            text |-> OrDefault(GetOr(rec.text, NoneVal), Str(<<>>))]
      [] rec.shape = "object"
           /\ (rec.start.t # "absent" \/ rec.text.t # "absent") ->
           LET text1 == OrDefault(GetOr(rec.text, Str(<<>>)), Str(<<>>))
           IN [kind |-> "record",
               start |-> GetOr(rec.start, Num(0)),
               text |-> IF ~Truthy(text1) /\ rec.get_text.t # "absent"
                        THEN rec.get_text
                        ELSE text1]
      [] rec.shape = "tuple" /\ Len(rec.items) >= 3 ->
           [kind |-> "record",
            start |-> OrDefault(rec.items[1], Num(0)),
            text |-> OrDefault(rec.items[3], Str(<<>>))]
      [] rec.shape = "tuple" /\ Len(rec.items) = 2 ->
           [kind |-> "record",
            start |-> OrDefault(rec.items[1], Num(0)),
            text |-> OrDefault(rec.items[2], Str(<<>>))]
      [] OTHER -> [kind |-> "skip"]

\* whether the iteration of lines 97-122 on rec raises
Raises(rec) ==
    LET e == Extracted(rec)
    IN e.kind = "record" /\ (~FloatOk(e.start) \/ ~TextOk(e.text))

\* the segment appended at line 122
NormSegment(rec) ==
    LET e == Extracted(rec)
    IN [timestamp |-> sec_to_hms(FloatVal(e.start)),
        text |-> ReplaceStrip(e.text.str)]

\* one iteration of the loop of lines 97-122, on the next raw record
NormIter(rec) ==
    /\ pc = "normalize"
    /\ Len(raw) < MaxRaw
    /\ raw' = Append(raw, rec)
    /\ IF Extracted(rec).kind = "skip"
       THEN UNCHANGED <<pc, out, out_src>>
       ELSE IF Raises(rec)
       THEN pc' = "raised" /\ UNCHANGED <<out, out_src>>
       ELSE /\ out' = Append(out, NormSegment(rec))
            /\ out_src' = Append(out_src, Len(raw) + 1)
            /\ UNCHANGED pc
    /\ UNCHANGED <<pvars, rvars, ovars>>

\* line 123: return out
NormReturn ==
    /\ pc = "normalize"
    /\ pc' = "returned"
    /\ UNCHANGED <<pvars, nvars, rvars, ovars>>

\* BeautifulSoup get_text(sep, strip=True): the stripped, non-empty text
\* nodes of the element, joined by sep
RECURSIVE GetText(_, _)
GetText(nodes, sep) ==
    IF nodes = <<>> THEN <<>>
    ELSE LET h == StripChars(Head(nodes), Whitespace)
             rest == GetText(Tail(nodes), sep)
         IN IF h = <<>> THEN rest
            ELSE IF rest = <<>> THEN h
            ELSE h \o sep \o rest

\* lines 75-76: an element is kept when its text or its timestamp is non-empty
HtmlKept(text, ts) == text # <<>> \/ (ts # None /\ ts # <<>>)

\* lines 63-73: the timestamp and text of one transcript-segment element;
\* each sub-element is Absent or the list of its text nodes
HtmlSegment(el) ==
    LET ts == IF el.ts_el.t = "absent" THEN None
              ELSE GetText(el.ts_el.str, <<>>)
        text_el == IF el.segment_text.t # "absent" THEN el.segment_text
                   ELSE el.formatted_string
        text == IF text_el.t = "absent" THEN <<>>
                ELSE GetText(text_el.str, <<" ">>)
    IN [timestamp |-> ts, text |-> text]

\* one iteration of the loop of lines 62-76, on the next element
HtmlIter(el) ==
    /\ pc = "html"
    /\ Len(raw) < MaxRaw
    /\ raw' = Append(raw, el)
    /\ LET seg == HtmlSegment(el)
       IN IF HtmlKept(seg.text, seg.timestamp)
          THEN /\ out' = Append(out, seg)
               /\ out_src' = Append(out_src, Len(raw) + 1)
          ELSE UNCHANGED <<out, out_src>>
    /\ UNCHANGED <<pc, pvars, rvars, ovars>>

\* line 77: return segments
HtmlReturn ==
    /\ pc = "html"
    /\ pc' = "returned_html"
    /\ UNCHANGED <<pvars, nvars, rvars, ovars>>

(***************************************************************************)
(* The inputs of the normalizers.                                          *)
(***************************************************************************)
RawStarts ==
    { Absent, NoneVal, Num(0), Num(25), Num(615),
      Str(<<"7">>), Str(<<"a", "b">>) }

RawTexts ==
    { Absent, NoneVal, Str(<<"h", "i", "\n">>), Str(<<" ", "\n">>) }

RawRecords ==
    [shape : {"dict"}, start : RawStarts, text : RawTexts]
    \cup [shape : {"object"}, start : {Absent, Num(25), Str(<<"a", "b">>)},
          text : {Absent, Str(<<>>), Str(<<"h", "i", "\n">>)},
          get_text : {Absent, Str(<<"y", "o">>)}]
    \cup [shape : {"tuple"},
          items : { <<>>, <<Num(25)>>,
                    <<Num(25), Str(<<"h", "i", "\n">>)>>,
                    <<NoneVal, NoneVal>>,
                    <<Str(<<"a", "b">>), Str(<<"h", "i", "\n">>)>>,
                    <<Num(615), Num(20), Str(<<"h", "i", "\n">>)>>,
                    <<Num(0), Num(20), Str(<<" ", "\n">>)>> }]
    \cup [shape : {"other"}]

HtmlNodes ==
    { Absent, Str(<<>>), Str(<< <<" ", "\n">> >>),
      Str(<< <<"h", "i", " ">>, <<" ">>, <<"y", "o">> >>) }

HtmlTimestamps ==
    { Absent, Str(<<>>), Str(<< <<" ", "0", ":", "0", "5", "\n">> >>) }

HtmlElements ==
    [ts_el : HtmlTimestamps, segment_text : HtmlNodes,
     formatted_string : {Absent, Str(<< <<"y", "o">> >>)}]

\* the paragraph pass at rest
IdlePara ==
    /\ segments = <<>>
    /\ gap_threshold = DefaultGap
    /\ max_chars = DefaultMaxChars
    /\ keep_timestamps = FALSE
    /\ paras = <<>>
    /\ buf = <<>>
    /\ para_start_ts = None
    /\ prev_secs = <<>>
    /\ flushed = <<>>
    /\ cur_segs = <<>>

InitNorm ==
    /\ pc \in {"normalize", "html"}
    /\ IdlePara
    /\ IdleNorm
    /\ IdleRender
    /\ IdleOthers

NextNorm ==
    \/ \E rec \in RawRecords : NormIter(rec)
    \/ NormReturn
    \/ \E el \in HtmlElements : HtmlIter(el)
    \/ HtmlReturn

SpecNorm == InitNorm /\ [][NextNorm]_vars

(***************************************************************************)
(* The renderers: to_plain_text and to_srt.                                *)
(***************************************************************************)
\* sep.join(list)
RECURSIVE JoinWith(_, _)
JoinWith(list, sep) ==
    IF list = <<>> THEN <<>>
    ELSE IF Len(list) = 1 THEN Head(list)
    ELSE Head(list) \o sep \o JoinWith(Tail(list), sep)

Max(a, b) == IF a >= b THEN a ELSE b

Min(a, b) == IF a <= b THEN a ELSE b

\* whether hms_to_secs (lines 240-246) returns: every part must be an int,
\* and the parts must be two or three
HmsOk(hms) ==
    LET parts == Split(hms, ":")
    IN /\ \A k \in 1..Len(parts) : IntOk(parts[k])
       /\ Len(parts) \in {2, 3}

\* hms_to_secs, where HmsOk(hms)
hms_to_secs(hms) ==
    LET parts == Split(hms, ":")
    IN IF Len(parts) = 2
       THEN IntVal(parts[1]) * 60 + IntVal(parts[2])
       ELSE IntVal(parts[1]) * 3600 + IntVal(parts[2]) * 60 + IntVal(parts[3])

\* secs_to_srt_time (lines 248-263) of an int: the milliseconds are 0
secs_to_srt_time(sec) ==
    LET h == sec \div 3600
        m == (sec % 3600) \div 60
        sc == sec % 60
    IN FormatD(h, 2) \o <<":">> \o FormatD(m, 2) \o <<":">> \o FormatD(sc, 2)
       \o <<",">> \o FormatD(0, 3)

MidnightTs == <<"0", "0", ":", "0", "0", ":", "0", "0">>

\* line 268: seg.get("timestamp") or "00:00:00"
TsOrMidnight(ts) == IF ts = None \/ ts = <<>> THEN MidnightTs ELSE ts

\* lines 269-272 raise when a one-colon timestamp has a part that is no int
SrtNormOk(ts) ==
    Count(ts, ":") = 1 =>
        LET parts == Split(ts, ":") IN IntOk(parts[1]) /\ IntOk(parts[2])

\* lines 269-272: M:SS -> 00:MM:SS
SrtNormTs(ts) ==
    IF Count(ts, ":") = 1
    THEN LET parts == Split(ts, ":")
         IN <<"0", "0", ":">> \o FormatD(IntVal(parts[1]), 2) \o <<":">>
            \o FormatD(IntVal(parts[2]), 2)
    ELSE ts

\* one iteration of the loop of lines 267-273
SrtNormIter ==
    /\ pc = "to_srt"
    /\ Len(norm) < Len(rsegs)
    /\ LET seg == rsegs[Len(norm) + 1]
           ts == TsOrMidnight(seg.timestamp)
       IN IF SrtNormOk(ts)
          THEN /\ norm' = Append(norm, [timestamp |-> SrtNormTs(ts),
                                        text |-> seg.text])
               /\ UNCHANGED pc
          ELSE pc' = "raised" /\ UNCHANGED norm
    /\ UNCHANGED <<rsegs, lines, result, pvars, nvars, ovars>>

\* every cue two seconds long, like the last one
SrtEndFixed(start_sec, next_start_sec) == start_sec + 2

SrtEndMin(start_sec, next_start_sec) == Min(start_sec + 1, next_start_sec - 1)

\* line 282: the end of a cue that is not the last
SrtEnd(start_sec, next_start_sec) == Max(start_sec + 1, next_start_sec - 1)

\* line 284: the end of the last cue
SrtLastEnd(start_sec) == start_sec + 2

Arrow == <<" ", "-", "-", ">", " ">>

\* one iteration of the loop of lines 277-291: cue i
SrtBuildIter ==
    /\ pc = "to_srt"
    /\ Len(norm) = Len(rsegs)
    /\ Len(lines) < 4 * Len(norm)
    /\ LET i == (Len(lines) \div 4) + 1
           seg == norm[i]
           ok == /\ HmsOk(seg.timestamp)
                 /\ i < Len(norm) => HmsOk(norm[i + 1].timestamp)
           start_sec == hms_to_secs(seg.timestamp)
           end_sec == IF i < Len(norm)
                      THEN SrtEnd(start_sec, hms_to_secs(norm[i + 1].timestamp))
                      ELSE SrtLastEnd(start_sec)
       IN IF ok
          THEN /\ lines' = lines \o
                     << NatStr(i),
                        secs_to_srt_time(start_sec) \o Arrow
                            \o secs_to_srt_time(end_sec),
                        seg.text,
                        <<>> >>
               /\ UNCHANGED pc
          ELSE pc' = "raised" /\ UNCHANGED lines
    /\ UNCHANGED <<rsegs, norm, result, pvars, nvars, ovars>>

\* line 292: return "\n".join(srt_lines)
SrtReturn ==
    /\ pc = "to_srt"
    /\ Len(norm) = Len(rsegs)
    /\ Len(lines) = 4 * Len(norm)
    /\ result' = JoinWith(lines, <<"\n">>)
    /\ pc' = "srt_done"
    /\ UNCHANGED <<rsegs, norm, lines, pvars, nvars, ovars>>

\* lines 213-218: the line of one segment
PlainLine(seg) ==
    LET ts == OrEmpty(seg.timestamp)
        txt == OrEmpty(seg.text)
    IN IF ts # <<>> THEN <<"[">> \o ts \o <<"]", " ">> \o txt ELSE txt

\* one iteration of the loop of lines 212-218
PlainIter ==
    /\ pc = "to_plain_text"
    /\ Len(lines) < Len(rsegs)
    /\ lines' = Append(lines, PlainLine(rsegs[Len(lines) + 1]))
    /\ UNCHANGED <<pc, rsegs, norm, result, pvars, nvars, ovars>>

\* line 219: return "\n".join(lines)
PlainReturn ==
    /\ pc = "to_plain_text"
    /\ Len(lines) = Len(rsegs)
    /\ result' = JoinWith(lines, <<"\n">>)
    /\ pc' = "plain_done"
    /\ UNCHANGED <<rsegs, norm, lines, pvars, nvars, ovars>>

(***************************************************************************)
(* The inputs of the renderers: a text, and a timestamp that is None, a    *)
(* valid M:SS or H:MM:SS, or a str that is no timestamp.                   *)
(***************************************************************************)
RenderTimestamps ==
    { None,
      <<"0", ":", "0", "0">>,
      <<"0", ":", "0", "5">>,
      <<"0", ":", "0", "6">>,
      <<"0", ":", "1", "0">>,
      <<"0", ":", "0", "0", ":", "0", "7">>,
      <<"n", "a">>,
      <<"x", ":", "5">> }

RenderTexts == { <<"h", "i">> }

RenderSegments == [timestamp : RenderTimestamps, text : RenderTexts]

SeqsUpTo(S, n) == UNION { [1..k -> S] : k \in 0..n }

InitRender ==
    /\ pc \in {"to_srt", "to_plain_text"}
    /\ rsegs \in SeqsUpTo(RenderSegments, MaxCues)
    /\ norm = <<>>
    /\ lines = <<>>
    /\ result = None
    /\ IdlePara
    /\ IdleNorm
    /\ IdleOthers

NextRender ==
    \/ SrtNormIter
    \/ SrtBuildIter
    \/ SrtReturn
    \/ PlainIter
    \/ PlainReturn

SpecRender == InitRender /\ [][NextRender]_vars

(***************************************************************************)
(* _ts_to_secs called alone, on a str written from up to MaxParts parts    *)
(* joined by colons, bare or wrapped in brackets and whitespace, or on     *)
(* None.                                                                   *)
(***************************************************************************)
MaxParts == 4

TsParts ==
    { <<"0">>, <<"0", "5">>, <<"5", "9">>, <<"1", "_", "0">>, <<"-", "1">>,
      <<"x">>, <<"1", ".", "5">>, <<>> }

TsWraps == {"bare", "brackets", "spaces"}

TsWrap(wrap, body) ==
    CASE wrap = "bare" -> body
      [] wrap = "brackets" -> <<"[">> \o body \o <<"]">>
      [] wrap = "spaces" -> <<" ", "[">> \o body \o <<"]", "\n">>

TsPartSeqs == UNION { [1..k -> TsParts] : k \in 1..MaxParts }

InitTs ==
    /\ pc = "ts_call"
    /\ \/ ts_arg = None /\ ts_parts = <<>>
       \/ \E parts \in TsPartSeqs, wrap \in TsWraps :
              /\ ts_parts = parts
              /\ ts_arg = TsWrap(wrap, JoinWith(parts, <<":">>))
    /\ ts_secs = <<>>
    /\ IdlePara
    /\ IdleNorm
    /\ IdleRender
    /\ IdleMerge
    /\ IdleUnlock

\* the call of _ts_to_secs (lines 298-313): it returns, whatever the str
TsCall ==
    /\ pc = "ts_call"
    /\ ts_secs' = <<_ts_to_secs(ts_arg)>>
    /\ pc' = "ts_done"
    /\ UNCHANGED <<ts_arg, ts_parts, pvars, nvars, rvars, mvars, uvars>>

NextTs == TsCall

SpecTs == InitTs /\ [][NextTs]_vars

(***************************************************************************)
(* main of Merging_m3u8.py.  A playlist path is a number, and the order of *)
(* the numbers is the order sorted() gives the paths.  ffmpeg is installed,*)
(* as the module requires (line 5): a run of ffmpeg ends with status 0 or  *)
(* with another status, which run() returns as a CalledProcessError.       *)
(***************************************************************************)
MaxPlaylists == 3

\* sorted(S)
RECURSIVE Sorted(_)
Sorted(S) ==
    IF S = {} THEN <<>>
    ELSE LET least == CHOOSE x \in S : \A y \in S : x <= y
         IN <<least>> \o Sorted(S \ {least})

\* the re-encode before the TS copy
AfterCopyFailedReencodeFirst(is_mp4, re) ==
    IF re THEN "merge_reencode" ELSE IF is_mp4 THEN "merge_ts" ELSE "count"

\* lines 100-130: what follows a failed stream copy: the TS copy in MP4
\* mode (line 104), else the re-encode if asked for (line 120), else the
\* playlist is counted as a failure (line 130)
AfterCopyFailed(is_mp4, re) ==
    IF is_mp4 THEN "merge_ts" ELSE IF re THEN "merge_reencode" ELSE "count"

\* lines 116-130: what follows a failed TS copy
AfterTsFailed(re) == IF re THEN "merge_reencode" ELSE "count"

\* lines 134-138: the exit status; main returns, status 0, without failures
MergeExitStatus(f) == IF f > 0 THEN 2 ELSE 0

\* the loop of line 94 after a playlist: the next one, or the end
AfterPlaylist == IF done + 1 < Len(m3u8s) THEN "merge_copy" ELSE "merge_end"

\* a run of ffmpeg on the current playlist
MergeRun(how, ok) == [m3u8 |-> m3u8s[done + 1], how |-> how, ok |-> ok]

InitMerge ==
    /\ pc = "merge_main"
    /\ globbed \in SUBSET (1..MaxPlaylists)
    /\ mp4 \in BOOLEAN
    /\ reencode \in BOOLEAN
    /\ m3u8s = <<>>
    /\ done = 0
    /\ failures = 0
    /\ merge_tried = <<>>
    /\ merge_exit = <<>>
    /\ IdlePara
    /\ IdleNorm
    /\ IdleRender
    /\ IdleTs
    /\ IdleUnlock

\* lines 85-93: the playlists are globbed and sorted; exit 1 if there is none
MergeMain ==
    /\ pc = "merge_main"
    /\ m3u8s' = Sorted(globbed)
    /\ IF globbed = {}
       THEN merge_exit' = <<1>> /\ pc' = "merge_exited"
       ELSE pc' = "merge_copy" /\ UNCHANGED merge_exit
    /\ UNCHANGED <<globbed, mp4, reencode, done, failures, merge_tried>>
    /\ UNCHANGED <<pvars, nvars, rvars, tvars, uvars>>

\* the end of the iteration on the current playlist: it is counted as a
\* failure or not, and the loop goes on
PlaylistDone(failed) ==
    /\ failures' = IF failed THEN failures + 1 ELSE failures
    /\ done' = done + 1
    /\ pc' = AfterPlaylist

\* lines 95-101 and 131-132: the stream copy of the current playlist
StreamCopy(ok) ==
    /\ pc = "merge_copy"
    /\ merge_tried' = Append(merge_tried, MergeRun("copy", ok))
    /\ IF ok THEN PlaylistDone(FALSE)
       ELSE IF AfterCopyFailed(mp4, reencode) = "count" THEN PlaylistDone(TRUE)
       ELSE /\ pc' = AfterCopyFailed(mp4, reencode)
            /\ UNCHANGED <<done, failures>>
    /\ UNCHANGED <<globbed, m3u8s, mp4, reencode, merge_exit>>
    /\ UNCHANGED <<pvars, nvars, rvars, tvars, uvars>>

\* lines 104-118: the copy into a TS container
TsCopy(ok) ==
    /\ pc = "merge_ts"
    /\ merge_tried' = Append(merge_tried, MergeRun("ts", ok))
    /\ IF ok THEN PlaylistDone(FALSE)
       ELSE IF AfterTsFailed(reencode) = "count" THEN PlaylistDone(TRUE)
       ELSE /\ pc' = AfterTsFailed(reencode)
            /\ UNCHANGED <<done, failures>>
    /\ UNCHANGED <<globbed, m3u8s, mp4, reencode, merge_exit>>
    /\ UNCHANGED <<pvars, nvars, rvars, tvars, uvars>>

\* lines 120-128: the re-encode
Reencode(ok) ==
    /\ pc = "merge_reencode"
    /\ merge_tried' = Append(merge_tried, MergeRun("reencode", ok))
    /\ PlaylistDone(~ok)
    /\ UNCHANGED <<globbed, m3u8s, mp4, reencode, merge_exit>>
    /\ UNCHANGED <<pvars, nvars, rvars, tvars, uvars>>

\* lines 134-138: the loop is over
MergeEnd ==
    /\ pc = "merge_end"
    /\ merge_exit' = <<MergeExitStatus(failures)>>
    /\ pc' = "merge_exited"
    /\ UNCHANGED <<globbed, m3u8s, mp4, reencode, done, failures, merge_tried>>
    /\ UNCHANGED <<pvars, nvars, rvars, tvars, uvars>>

NextMerge ==
    \/ MergeMain
    \/ \E ok \in BOOLEAN : StreamCopy(ok)
    \/ \E ok \in BOOLEAN : TsCopy(ok)
    \/ \E ok \in BOOLEAN : Reencode(ok)
    \/ MergeEnd

SpecMerge == InitMerge /\ [][NextMerge]_vars

(***************************************************************************)
(* main of PDFUnlock.py.  A method returns (ok, msg); the model keeps msg,  *)
(* and ok is true for the two messages of success.  Which of the outcomes  *)
(* a method has depends on the PDF and on the machine, so every outcome is *)
(* possible at every try.  Path k is common_paths[k - 1].                  *)
(***************************************************************************)
NumCommonPaths == 5

ArgcValues == {2, 3, 4, 5}

\* the returns of try_pikepdf (lines 21, 31, 33, 35)
PikepdfOutcomes ==
    {"pikepdf_ok", "pikepdf_not_available", "wrong_password", "pikepdf_error"}

\* the returns of try_ghostscript (lines 60, 62, 64, 66)
GsOutcomes ==
    {"ghostscript_ok", "ghostscript_not_found", "ghostscript_error",
     "ghostscript_exception"}

\* the flag ok returned with msg
MethodOk(msg) == msg \in {"pikepdf_ok", "ghostscript_ok"}

\* line 69
ArgsOk(n) == 3 <= n /\ n <= 4

\* every candidate path is run, a file or not
TriesEveryPath(path, files) == TRUE

\* line 106: os.path.isfile(path)
TriesPath(path, files) == path \in files

\* one try of a method; path is 0 for pikepdf and for the default executable
UnlockTry(method, path, msg) == [method |-> method, path |-> path, msg |-> msg]

InitUnlock ==
    /\ pc = "unlock_main"
    /\ argc \in ArgcValues
    /\ infile_exists \in BOOLEAN
    /\ gs_files \in SUBSET (1..NumCommonPaths)
    /\ path_idx = 0
    /\ unlock_tried = <<>>
    /\ unlock_exit = <<>>
    /\ IdlePara
    /\ IdleNorm
    /\ IdleRender
    /\ IdleTs
    /\ IdleMerge

\* lines 69-83: the usage and the input file are checked
UnlockMain ==
    /\ pc = "unlock_main"
    /\ IF ~ArgsOk(argc)
       THEN unlock_exit' = <<2>> /\ pc' = "unlock_exited"
       ELSE IF ~infile_exists
       THEN unlock_exit' = <<1>> /\ pc' = "unlock_exited"
       ELSE pc' = "unlock_pikepdf" /\ UNCHANGED unlock_exit
    /\ UNCHANGED <<argc, infile_exists, gs_files, path_idx, unlock_tried>>
    /\ UNCHANGED <<pvars, nvars, rvars, tvars, mvars>>

\* lines 85-92: the first attempt
TryPikepdf(msg) ==
    /\ pc = "unlock_pikepdf"
    /\ unlock_tried' = Append(unlock_tried, UnlockTry("pikepdf", 0, msg))
    /\ IF MethodOk(msg)
       THEN unlock_exit' = <<0>> /\ pc' = "unlock_exited"
       ELSE pc' = "unlock_gs_paths" /\ UNCHANGED unlock_exit
    /\ UNCHANGED <<argc, infile_exists, gs_files, path_idx>>
    /\ UNCHANGED <<pvars, nvars, rvars, tvars, mvars>>

\* lines 105-106: the next candidate path is no file, it is passed over
GsSkipPath ==
    /\ pc = "unlock_gs_paths"
    /\ path_idx < NumCommonPaths
    /\ ~TriesPath(path_idx + 1, gs_files)
    /\ path_idx' = path_idx + 1
    /\ UNCHANGED <<pc, argc, infile_exists, gs_files, unlock_tried, unlock_exit>>
    /\ UNCHANGED <<pvars, nvars, rvars, tvars, mvars>>

\* lines 105-112: the next candidate path is a file, Ghostscript is run
GsTryPath(msg) ==
    /\ pc = "unlock_gs_paths"
    /\ path_idx < NumCommonPaths
    /\ TriesPath(path_idx + 1, gs_files)
    /\ path_idx' = path_idx + 1
    /\ unlock_tried' =
           Append(unlock_tried, UnlockTry("ghostscript", path_idx + 1, msg))
    /\ IF MethodOk(msg)
       THEN unlock_exit' = <<0>> /\ pc' = "unlock_exited"
       ELSE UNCHANGED <<pc, unlock_exit>>
    /\ UNCHANGED <<argc, infile_exists, gs_files>>
    /\ UNCHANGED <<pvars, nvars, rvars, tvars, mvars>>

\* lines 114-123: the default executable, then exit 3
GsDefault(msg) ==
    /\ pc = "unlock_gs_paths"
    /\ path_idx = NumCommonPaths
    /\ unlock_tried' = Append(unlock_tried, UnlockTry("ghostscript", 0, msg))
    /\ unlock_exit' = IF MethodOk(msg) THEN <<0>> ELSE <<3>>
    /\ pc' = "unlock_exited"
    /\ UNCHANGED <<argc, infile_exists, gs_files, path_idx>>
    /\ UNCHANGED <<pvars, nvars, rvars, tvars, mvars>>

NextUnlock ==
    \/ UnlockMain
    \/ \E msg \in PikepdfOutcomes : TryPikepdf(msg)
    \/ GsSkipPath
    \/ \E msg \in GsOutcomes : GsTryPath(msg)
    \/ \E msg \in GsOutcomes : GsDefault(msg)

SpecUnlock == InitUnlock /\ [][NextUnlock]_vars

(***************************************************************************)
(* Properties of the paragraph pass.                                       *)
(***************************************************************************)
Piece(seg) == _clean_piece(OrEmpty(seg.text))

Secs(seg) == _ts_to_secs(OrEmpty(seg.timestamp))

\* the cleaned, non-empty texts of a sequence of segments, in order
RECURSIVE Pieces(_)
Pieces(segs) ==
    IF segs = <<>> THEN <<>>
    ELSE (IF Piece(Head(segs)) = <<>> THEN <<>> ELSE <<Piece(Head(segs))>>)
         \o Pieces(Tail(segs))

\* a flushed buffer without the separators inserted at line 376; a piece is
\* never a lone space, so a lone space in the buffer is a separator
WithoutSeps(b) == SelectSeq(b, LAMBDA x : x # <<" ">>)

RECURSIVE BodiesWithoutSeps(_)
BodiesWithoutSeps(fl) ==
    IF fl = <<>> THEN <<>>
    ELSE Join(WithoutSeps(Head(fl).buf)) \o BodiesWithoutSeps(Tail(fl))

FlushedBy(by) == \E k \in 1..Len(flushed) : flushed[k].by = by

\* C1: with keep_timestamps false, every returned paragraph is the join of
\* the buffer it was flushed from, and the paragraphs in order, without the
\* separators inserted between merged pieces, are exactly the cleaned
\* non-empty segment texts in input order.
C1_TextPreserved ==
    (pc = "done" /\ ~keep_timestamps) =>
        /\ Len(paras) = Len(flushed)
        /\ \A k \in 1..Len(paras) : paras[k] = Join(flushed[k].buf)
        /\ BodiesWithoutSeps(flushed) = Join(Pieces(segments))

\* C1 witness: three pieces, two of them merged with a separator, closed by
\* a gap break and the final flush
C1_Witness ==
    /\ pc = "done" /\ ~keep_timestamps
    /\ Len(Pieces(segments)) = 3
    /\ FlushedBy("gap") /\ FlushedBy("final")
    /\ \E k \in 1..Len(flushed) :
           Len(WithoutSeps(flushed[k].buf)) < Len(flushed[k].buf)

\* the same for the eager punctuation flush and for the length break
C1_WitnessEager ==
    /\ pc = "done" /\ ~keep_timestamps
    /\ Len(Pieces(segments)) = 3
    /\ FlushedBy("eager") /\ FlushedBy("final")

C1_WitnessLength ==
    /\ pc = "done" /\ ~keep_timestamps
    /\ Len(Pieces(segments)) = 3
    /\ FlushedBy("length") /\ FlushedBy("final")

\* C2: two consecutive segments with known timestamps t1 <= t2 and short
\* texts (the merged buffer below 30 characters and below max_chars) give
\* two paragraphs exactly when t2 - t1 > gap_threshold and one otherwise,
\* for every gap_threshold, zero and negative included.
C2_GapDecides ==
    (/\ pc = "done"
     /\ Len(segments) = 2
     /\ Len(Pieces(segments)) = 2
     /\ Secs(segments[1]) >= 0
     /\ Secs(segments[1]) <= Secs(segments[2])
     /\ Len(Piece(segments[1])) + 1 + Len(Piece(segments[2])) < MinFlushLen
     /\ Len(Piece(segments[1])) + 1 + Len(Piece(segments[2])) < max_chars)
    => IF Secs(segments[2]) - Secs(segments[1]) > gap_threshold
       THEN Len(paras) = 2
       ELSE Len(paras) = 1

\* C2 witness: equal timestamps split under a negative threshold
C2_Witness ==
    /\ pc = "done"
    /\ Len(segments) = 2
    /\ Len(Pieces(segments)) = 2
    /\ Secs(segments[1]) >= 0
    /\ Secs(segments[1]) = Secs(segments[2])
    /\ gap_threshold < 0
    /\ Len(paras) = 2

\* a positive delta that does not exceed the threshold keeps one paragraph
C2_WitnessMerged ==
    /\ pc = "done"
    /\ Len(segments) = 2
    /\ Len(Pieces(segments)) = 2
    /\ Secs(segments[1]) >= 0
    /\ Secs(segments[1]) < Secs(segments[2])
    /\ Len(paras) = 1

\* C3: no returned paragraph has an empty body, and none was flushed from an
\* empty buffer, also when a break fires right after an eager flush.
C3_NoEmptyParagraph ==
    /\ Len(paras) = Len(flushed)
    /\ \A k \in 1..Len(paras) :
           /\ paras[k] # <<>>
           /\ flushed[k].buf # <<>>
           /\ StripChars(Join(flushed[k].buf), Whitespace) # <<>>

\* C3 witness: segment 2 closed a paragraph eagerly, and segment 3 came with
\* a gap above the threshold, so the break fired on the emptied buffer
C3_Witness ==
    /\ pc = "done"
    /\ Len(segments) = 3
    /\ Len(Pieces(segments)) = 3
    /\ Len(flushed) = 2
    /\ flushed[1].by = "eager" /\ flushed[1].segs = <<1, 2>>
    /\ Secs(segments[2]) >= 0
    /\ Secs(segments[3]) - Secs(segments[2]) > gap_threshold
    /\ flushed[2].segs = <<3>>

\* the first segment that contributed to paragraph k
FirstSeg(k) == segments[flushed[k].segs[1]]

\* the prefix of line 362 for a start timestamp
Bracketed(ts) == <<"[">> \o ts \o <<"]", " ">>

\* C9: with keep_timestamps every paragraph whose start timestamp is known
\* is that timestamp in brackets, a space, and the body, whichever flush
\* emitted it and also for a start of zero seconds; without keep_timestamps
\* a paragraph is its body alone.
C9_TimestampPrefix ==
    /\ Len(paras) = Len(flushed)
    /\ \A k \in 1..Len(paras) :
           LET body == Join(flushed[k].buf)
           IN IF keep_timestamps /\ Secs(FirstSeg(k)) >= 0
              THEN paras[k] = Bracketed(FirstSeg(k).timestamp) \o body
              ELSE paras[k] = body

\* C9 witness: paragraphs that start at zero seconds and at a later known
\* time were closed by a deferred break and by the final flush, with the prefix
C9_Witness ==
    /\ pc = "done" /\ keep_timestamps
    /\ Len(flushed) = 2
    /\ flushed[1].by = "gap" /\ Secs(FirstSeg(1)) = 0
    /\ flushed[2].by = "final" /\ Secs(FirstSeg(2)) > 0
    /\ Head(paras[1]) = "[" /\ Head(paras[2]) = "["

\* the same for the eager punctuation flush
C9_WitnessEager ==
    /\ pc = "done" /\ keep_timestamps
    /\ \E k \in 1..Len(flushed) :
           /\ flushed[k].by = "eager"
           /\ Secs(FirstSeg(k)) = 0
           /\ Head(paras[k]) = "["

\* the first contributing segment of paragraph k with a known timestamp,
\* as a sequence of at most one timestamp
RECURSIVE FirstKnown(_)
FirstKnown(idx) ==
    IF idx = <<>> THEN <<>>
    ELSE IF Secs(segments[Head(idx)]) >= 0
         THEN <<segments[Head(idx)].timestamp>>
         ELSE FirstKnown(Tail(idx))

\* C10 as claimed: the start timestamp of a paragraph is that of its first
\* contributing segment with a known timestamp, absent only if there is none.
C10_FirstKnownTimestamp ==
    \A k \in 1..Len(flushed) :
        LET known == FirstKnown(flushed[k].segs)
        IN IF known = <<>>
           THEN flushed[k].start = None
           ELSE flushed[k].start = known[1]

\* C10 amended: the start timestamp of a paragraph is the timestamp of its
\* first contributing segment when that one is known, and absent otherwise,
\* even when a later contributing segment has a known timestamp.
C10_FirstSegmentTimestamp ==
    \A k \in 1..Len(flushed) :
        /\ flushed[k].segs # <<>>
        /\ IF Secs(FirstSeg(k)) >= 0
           THEN flushed[k].start = FirstSeg(k).timestamp
           ELSE flushed[k].start = None

\* C10 witness: a paragraph whose first segment has no timestamp and whose
\* second has one was returned without a start timestamp
C10_Witness ==
    /\ pc = "done"
    /\ \E k \in 1..Len(flushed) :
           /\ Len(flushed[k].segs) >= 2
           /\ Secs(FirstSeg(k)) < 0
           /\ Secs(segments[flushed[k].segs[2]]) >= 0
           /\ flushed[k].start = None

(***************************************************************************)
(* Properties of the normalizers.                                          *)
(***************************************************************************)
\* the start value of a raw record of a recognized shape
StartOf(rec) ==
    CASE rec.shape = "tuple" -> rec.items[1]
      [] OTHER -> rec.start

\* a record the loop does not pass over: a mapping, an object with a start
\* or a text, a sequence of two or more elements
Recognized(rec) == Extracted(rec).kind = "record"

StartMissing(rec) == StartOf(rec).t \in {"absent", "none"}

StartParseable(rec) == ~StartMissing(rec) /\ FloatOk(StartOf(rec))

\* a record that must yield a segment: recognized, its start a number or
\* missing, its text a str or missing
WellFormed(rec) ==
    /\ Recognized(rec)
    /\ StartMissing(rec) \/ StartParseable(rec)
    /\ TextOk(Extracted(rec).text)

Yielded(j) == \E k \in 1..Len(out) : out_src[k] = j

\* C4: a malformed record never aborts _normalize_segments: the call does
\* not raise, and every well-formed record consumed has yielded its segment.
C4_MalformedNeverAborts ==
    pc \in {"normalize", "returned", "raised"} =>
        /\ pc # "raised"
        /\ \A j \in 1..Len(raw) : WellFormed(raw[j]) => Yielded(j)

\* C5: every consumed record of a recognized shape yields a segment; its
\* timestamp is unknown (negative seconds, so not the 0 of a true start at
\* zero) when the start is missing or not parseable, and is the start,
\* rounded to the second, otherwise.
C5_MissingStartIsUnknown ==
    pc \in {"normalize", "returned", "raised"} =>
        \A j \in 1..Len(raw) :
            (Recognized(raw[j]) /\ TextOk(Extracted(raw[j]).text)) =>
                \E k \in 1..Len(out) :
                    /\ out_src[k] = j
                    /\ IF StartParseable(raw[j])
                       THEN _ts_to_secs(out[k].timestamp)
                                = RoundTenths(FloatVal(StartOf(raw[j])))
                       ELSE _ts_to_secs(out[k].timestamp) < 0

\* C6: no segment appended by _normalize_segments or extract_from_html has
\* a text that is empty after cleaning.
C6_NoEmptyTextSegment ==
    \A k \in 1..Len(out) : _clean_piece(OrEmpty(out[k].text)) # <<>>

\* What the code does instead, for _normalize_segments: every record that is
\* not passed over and does not raise is appended, whatever its text.
NormKeepsEveryRecord ==
    pc \in {"normalize", "returned"} =>
        \A j \in 1..Len(raw) : Recognized(raw[j]) => Yielded(j)

\* And for extract_from_html: an element is dropped only when both its text
\* and its timestamp are empty.
HtmlDropsOnlyWhollyEmpty ==
    pc \in {"html", "returned_html"} =>
        \A j \in 1..Len(raw) :
            Yielded(j) <=>
                (HtmlSegment(raw[j]).text # <<>>
                 \/ OrEmpty(HtmlSegment(raw[j]).timestamp) # <<>>)

(***************************************************************************)
(* Properties of the renderers.                                            *)
(***************************************************************************)
\* the start of a cue in seconds: 0 for a segment without a timestamp
CueStart(seg) ==
    IF OrEmpty(seg.timestamp) = <<>> THEN 0 ELSE _ts_to_secs(seg.timestamp)

C7_Example ==
    << <<"0", ":", "0", "0">>, <<"0", ":", "0", "5">>, <<"0", ":", "1", "0">> >>

C7_ExampleLines ==
    << <<"0", "0", ":", "0", "0", ":", "0", "0", ",", "0", "0", "0">> \o Arrow
         \o <<"0", "0", ":", "0", "0", ":", "0", "4", ",", "0", "0", "0">>,
       <<"0", "0", ":", "0", "0", ":", "0", "5", ",", "0", "0", "0">> \o Arrow
         \o <<"0", "0", ":", "0", "0", ":", "0", "9", ",", "0", "0", "0">>,
       <<"0", "0", ":", "0", "0", ":", "1", "0", ",", "0", "0", "0">> \o Arrow
         \o <<"0", "0", ":", "0", "0", ":", "1", "2", ",", "0", "0", "0">> >>

\* C7: the cues emitted by to_srt are one per segment, in input order and
\* numbered from 1; a cue that is not the last ends at max(start + 1, next
\* start - 1) seconds, the last at start + 2; a call that returns has emitted
\* a cue for every segment; segments at 0:00, 0:05, 0:10 end at 4, 9, 12 s.
C7_SrtCues ==
    pc \in {"to_srt", "srt_done"} =>
        /\ Len(lines) % 4 = 0
        /\ \A i \in 1..(Len(lines) \div 4) :
               LET start_sec == CueStart(rsegs[i])
                   end_sec == IF i < Len(rsegs)
                              THEN Max(start_sec + 1, CueStart(rsegs[i + 1]) - 1)
                              ELSE start_sec + 2
               IN /\ lines[4 * i - 3] = NatStr(i)
                  /\ lines[4 * i - 2] = secs_to_srt_time(start_sec) \o Arrow
                                            \o secs_to_srt_time(end_sec)
                  /\ lines[4 * i - 1] = rsegs[i].text
                  /\ lines[4 * i] = <<>>
        /\ pc = "srt_done" =>
               /\ Len(lines) = 4 * Len(rsegs)
               /\ result = JoinWith(lines, <<"\n">>)
               /\ [i \in 1..Len(rsegs) |-> rsegs[i].timestamp] = C7_Example
                      => [i \in 1..3 |-> lines[4 * i - 2]] = C7_ExampleLines

\* C7 witness: to_srt returned the three cues of segments at 0:00, 0:05, 0:10
C7_Witness ==
    /\ pc = "srt_done"
    /\ [i \in 1..Len(rsegs) |-> rsegs[i].timestamp] = C7_Example
    /\ Len(lines) = 12

\* a cue kept one second long because the next segment does not start later
C7_WitnessOverlap ==
    /\ pc = "srt_done"
    /\ Len(rsegs) >= 2
    /\ CueStart(rsegs[2]) <= CueStart(rsegs[1])

\* C8: to_plain_text and to_srt never raise on segments that carry a text
\* and a timestamp that is None or a str.
C8_RenderersTotal ==
    pc \in {"to_srt", "srt_done", "to_plain_text", "plain_done", "raised"} =>
        pc # "raised"

\* to_plain_text alone is total: it returns a line for every segment
PlainTextTotal ==
    pc = "plain_done" => Len(lines) = Len(rsegs)

\* a timestamp of seconds sec in H:MM:SS form, minutes and seconds on two
\* digits, the hours on at least width digits
HmsForm(sec, width) ==
    FormatD(sec \div 3600, width) \o <<":">> \o FormatD((sec % 3600) \div 60, 2)
        \o <<":">> \o FormatD(sec % 60, 2)

\* C11: to_plain_text returns one line per segment, in input order, joined
\* by single newlines; the line of a segment with a known timestamp (a valid
\* M:SS or H:MM:SS) is that time in zero-padded H:MM:SS form in brackets, a
\* space and the text; the line of a segment whose timestamp is None, empty
\* or no valid timestamp is the text alone.
C11_PlainTextLines ==
    pc = "plain_done" =>
        /\ Len(lines) = Len(rsegs)
        /\ result = JoinWith(lines, <<"\n">>)
        /\ \A i \in 1..Len(rsegs) :
               LET sec == Secs(rsegs[i])
               IN IF sec >= 0
                  THEN \E width \in {1, 2} :
                           lines[i] = Bracketed(HmsForm(sec, width))
                                          \o rsegs[i].text
                  ELSE lines[i] = rsegs[i].text

\* What to_plain_text does instead: every timestamp that is a non-empty str
\* is put in brackets as it is, valid or not, padded or not.
PlainTextVerbatim ==
    pc = "plain_done" =>
        /\ Len(lines) = Len(rsegs)
        /\ result = JoinWith(lines, <<"\n">>)
        /\ \A i \in 1..Len(rsegs) :
               IF OrEmpty(rsegs[i].timestamp) # <<>>
               THEN lines[i] = Bracketed(rsegs[i].timestamp) \o rsegs[i].text
               ELSE lines[i] = rsegs[i].text

(***************************************************************************)
(* Further properties of the paragraph pass.                               *)
(***************************************************************************)
\* the step consumes a segment whose cleaned text is not empty
AppendsPiece ==
    /\ Len(segments') = Len(segments) + 1
    /\ Piece(segments'[Len(segments')]) # <<>>

\* the buffer right after the append of the step: the buffer the step
\* leaves, or the one it flushed when it leaves the buffer empty
BufAfterAppend ==
    IF buf' = <<>> THEN flushed'[Len(flushed')].buf ELSE buf'

\* s ends with t
EndsWith(s, t) ==
    Len(s) >= Len(t) /\ SubSeq(s, Len(s) - Len(t) + 1, Len(s)) = t

\* C12: in every iteration that appends a piece, the paragraph is closed in
\* that same iteration (the buffer is emptied and its text is the last
\* paragraph of the output) exactly when the piece ends in a character of
\* END_PUNCT and the buffer, separators included, has at least 30
\* characters; a piece ending in a comma or a shorter buffer leaves the
\* paragraph open; and the piece appended after such a close is the first
\* of its buffer, whatever its time gap.
C12_EagerFlush ==
    [][AppendsPiece =>
          LET piece == Piece(segments'[Len(segments')])
              closed == buf' = <<>>
              b2 == BufAfterAppend
          IN /\ b2 # <<>> /\ Last(b2) = piece
             /\ closed <=> (Last(piece) \in END_PUNCT
                            /\ SumLen(b2) >= MinFlushLen)
             /\ closed =>
                    /\ Len(paras') > Len(paras)
                    /\ EndsWith(paras'[Len(paras')], Join(b2))
                    /\ para_start_ts' = None
             /\ ~closed => EndsWith(Join(buf'), piece)
             /\ buf = <<>> => b2 = <<piece>>]_vars

\* C12 witness: a piece ending in a comma brought the buffer to 30
\* characters or more without closing the paragraph, and the next piece,
\* ending in a question mark, closed it
C12_Witness ==
    \E k \in 1..Len(flushed) :
        /\ flushed[k].by = "eager"
        /\ Len(flushed[k].segs) = 3
        /\ Last(Piece(segments[flushed[k].segs[2]])) = ","
        /\ Len(Piece(segments[flushed[k].segs[1]]))
               + Len(Piece(segments[flushed[k].segs[2]])) >= MinFlushLen
        /\ Last(Piece(segments[flushed[k].segs[3]])) \in END_PUNCT

\* a piece ending a sentence in a buffer shorter than 30 characters left the
\* paragraph open
C12_WitnessShort ==
    /\ buf # <<>>
    /\ Last(Last(buf)) \in END_PUNCT
    /\ SumLen(buf) < MinFlushLen

\* the index of the first segment after segment i whose cleaned text is not
\* empty, 0 if there is none
NextPiece(i) ==
    LET later == {j \in (i + 1)..Len(segments) : Piece(segments[j]) # <<>>}
    IN IF later = {} THEN 0
       ELSE CHOOSE j \in later : \A j2 \in later : j <= j2

AllUnknown == \A i \in 1..Len(segments) : Secs(segments[i]) < 0

\* C13: a paragraph that ends before the next non-empty segment, and that
\* neither length nor punctuation could have closed, ends there only if the
\* timestamps of its last segment and of that next segment are both known
\* and differ by more than gap_threshold; a break recorded as a gap break
\* has both known; and when every timestamp of the input is unknown the
\* paragraphs returned are the same for every gap_threshold.
C13_GapNeedsBothKnown ==
    /\ \A k \in 1..Len(flushed) :
           LET b == flushed[k].buf
               i == flushed[k].segs[Len(flushed[k].segs)]
               j == NextPiece(i)
               both == /\ Secs(segments[i]) >= 0
                       /\ Secs(segments[j]) >= 0
                       /\ Secs(segments[j]) - Secs(segments[i]) > gap_threshold
           IN /\ flushed[k].by = "gap" => j # 0 /\ both
              /\ (/\ j # 0
                  /\ SumLen(b) < max_chars
                  /\ ~(Last(Last(b)) \in END_PUNCT /\ SumLen(b) >= MinFlushLen))
                 => both
    /\ (pc = "done" /\ AllUnknown) =>
           \A g \in GapThresholds :
               segments_to_paragraphs(segments, g, max_chars, keep_timestamps)
                   = paras

\* C13 witness: a segment without a timestamp between segments at 0:00 and
\* 0:03, more than gap_threshold apart, and the three in one paragraph
C13_Witness ==
    /\ pc = "done"
    /\ Len(flushed) = 1
    /\ flushed[1].segs = <<1, 2, 3>>
    /\ Secs(segments[1]) >= 0
    /\ Secs(segments[2]) < 0
    /\ Secs(segments[3]) - Secs(segments[1]) > gap_threshold

\* every timestamp unknown, three pieces, and still more than one paragraph
C13_WitnessAllUnknown ==
    /\ pc = "done"
    /\ AllUnknown
    /\ Len(Pieces(segments)) = 3
    /\ Len(paras) >= 2

\* the paragraphs segment i contributed to
ParasOf(i) ==
    {k \in 1..Len(flushed) :
        \E p \in 1..Len(flushed[k].segs) : flushed[k].segs[p] = i}

\* the condition of line 382 on a flushed buffer
ClosedByPunct(b) == Last(Last(b)) \in END_PUNCT /\ SumLen(b) >= MinFlushLen

\* C14: the length check acts only before an append: while the loop runs, a
\* paragraph whose last piece did not close it by punctuation was closed on
\* the arrival of a later non-empty segment, never right after its own last
\* piece.  So a segment whose cleaned text is longer than max_chars is in
\* exactly one paragraph, whole, and an input of that one segment gives
\* exactly one paragraph, which is that text.
C14_LongPieceOneParagraph ==
    /\ \A k \in 1..Len(flushed) :
           (pc = "loop" /\ ~ClosedByPunct(flushed[k].buf))
               => NextPiece(flushed[k].segs[Len(flushed[k].segs)]) # 0
    /\ pc = "done" =>
           \A i \in 1..Len(segments) :
               Len(Piece(segments[i])) > max_chars =>
                   /\ Cardinality(ParasOf(i)) = 1
                   /\ \A k \in ParasOf(i) :
                          /\ \E p \in 1..Len(flushed[k].buf) :
                                 flushed[k].buf[p] = Piece(segments[i])
                          /\ EndsWith(paras[k], Join(flushed[k].buf))
    /\ (/\ pc = "done"
        /\ Len(segments) = 1
        /\ Len(Piece(segments[1])) > max_chars)
       => /\ Len(paras) = 1
          /\ EndsWith(paras[1], Piece(segments[1]))
          /\ ~keep_timestamps => paras[1] = Piece(segments[1])

\* C14 witness: the input is one segment whose text is longer than max_chars
C14_Witness ==
    /\ pc = "done"
    /\ Len(segments) = 1
    /\ Len(Piece(segments[1])) > max_chars
    /\ Len(paras) = 1

\* a piece longer than max_chars was appended to a paragraph that held a
\* piece already, and the next segment closed that paragraph by length
C14_WitnessAppended ==
    /\ pc = "done"
    /\ Len(flushed) = 2
    /\ flushed[1].segs = <<1, 2>>
    /\ flushed[1].by = "length"
    /\ Len(Piece(segments[2])) > max_chars

\* what buffer b held when the piece at position p was appended to it: the
\* elements before p, without the separator put in front of the piece
BufBefore(b, p) ==
    IF p > 1 /\ b[p - 1] = <<" ">> THEN SubSeq(b, 1, p - 2)
    ELSE SubSeq(b, 1, p - 1)

\* every piece of b but the first was appended to fewer than max_chars
\* characters
AppendedBelowMax(b) ==
    \A p \in 2..Len(b) :
        b[p] # <<" ">> =>
            /\ BufBefore(b, p) # <<>>
            /\ SumLen(BufBefore(b, p)) < max_chars

\* C15: in every state, each piece of the buffer and of every flushed
\* paragraph that was appended to a non-empty buffer was appended to fewer
\* than max_chars characters; so every paragraph body without its last
\* piece and the separator before it is shorter than max_chars.
C15_SoftUpperBound ==
    /\ AppendedBelowMax(buf)
    /\ \A k \in 1..Len(flushed) :
           LET b == flushed[k].buf
           IN /\ AppendedBelowMax(b)
              /\ Len(b) > 1 => SumLen(BufBefore(b, Len(b))) < max_chars

\* C15 witness: a buffer of exactly max_chars characters was closed by the
\* length check when the next piece came, which started a new paragraph
C15_Witness ==
    /\ pc = "done"
    /\ Len(flushed) = 2
    /\ flushed[1].by = "length"
    /\ Len(flushed[1].buf) > 1
    /\ SumLen(flushed[1].buf) = max_chars

\* a returned paragraph of two pieces that is longer than max_chars: its
\* last piece was appended to fewer than max_chars characters
C15_WitnessSoft ==
    /\ pc = "done"
    /\ \E k \in 1..Len(flushed) :
           LET b == flushed[k].buf
           IN /\ Len(b) > 1
              /\ SumLen(b) > max_chars
              /\ SumLen(BufBefore(b, Len(b))) < max_chars

\* the step consumes a segment whose cleaned text is empty
SkipsSegment ==
    /\ Len(segments') = Len(segments) + 1
    /\ Piece(segments'[Len(segments')]) = <<>>

\* the last segment consumed whose cleaned text is not empty, 0 if none
LastPiece ==
    LET with == {i \in 1..Len(segments) : Piece(segments[i]) # <<>>}
    IN IF with = {} THEN 0 ELSE CHOOSE i \in with : \A i2 \in with : i2 <= i

\* C18: an iteration on a segment whose cleaned text is empty leaves the
\* buffer, the paragraph start timestamp, the output list and the previous
\* timestamp as they were; so in every state the previous timestamp is that
\* of the last segment with a non-empty text, which is what the gap check
\* of the next such segment compares with.
C18_EmptySegmentChangesNothing ==
    /\ [][SkipsSegment =>
              UNCHANGED <<buf, para_start_ts, paras, prev_secs, flushed,
                          cur_segs>>]_vars
    /\ [](prev_secs = IF LastPiece = 0 THEN <<>>
                      ELSE <<Secs(segments[LastPiece])>>)

\* C18 witness: the skipped second segment has the timestamp of the third,
\* and the third still broke the paragraph, being more than gap_threshold
\* after the first
C18_Witness ==
    /\ pc = "done"
    /\ Len(segments) = 3
    /\ Piece(segments[1]) # <<>>
    /\ Piece(segments[2]) = <<>>
    /\ Piece(segments[3]) # <<>>
    /\ Secs(segments[1]) >= 0
    /\ Secs(segments[2]) >= 0
    /\ Secs(segments[3]) - Secs(segments[2]) <= gap_threshold
    /\ Secs(segments[3]) - Secs(segments[1]) > gap_threshold
    /\ Len(flushed) = 2
    /\ flushed[1].by = "gap"

(***************************************************************************)
(* Properties of _ts_to_secs.                                              *)
(***************************************************************************)
\* the parts that are integers, with their values: 0, 05, 59, 1_0 and -1
TsPartIsInt(p) ==
    p \in { <<"0">>, <<"0", "5">>, <<"5", "9">>, <<"1", "_", "0">>,
            <<"-", "1">> }

TsPartValue(p) ==
    CASE p = <<"0">> -> 0
      [] p = <<"0", "5">> -> 5
      [] p = <<"5", "9">> -> 59
      [] p = <<"1", "_", "0">> -> 10
      [] p = <<"-", "1">> -> -1

\* the parts that are written with digits only
TsPartIsDigits(p) == p \in { <<"0">>, <<"0", "5">>, <<"5", "9">> }

AllParts(P(_)) == \A k \in 1..Len(ts_parts) : P(ts_parts[k])

\* C16: _ts_to_secs returns for every argument; two integer parts give
\* minutes * 60 + seconds and three give hours * 3600 + minutes * 60 +
\* seconds, padded or not, in brackets or not; a missing value, another
\* number of parts or a part that is no integer gives -1; and a timestamp
\* of two or three parts written with digits, 0:0 included, gives a value
\* of 0 or more, never the -1 of an unknown timestamp.
C16_TsToSecs ==
    /\ pc \in {"ts_call", "ts_done"} => (pc = "ts_done" <=> ts_secs # <<>>)
    /\ pc = "ts_done" =>
           /\ Len(ts_secs) = 1
           /\ ts_secs[1] =
                  IF ts_arg = None \/ ~AllParts(TsPartIsInt) THEN -1
                  ELSE IF Len(ts_parts) = 2
                  THEN TsPartValue(ts_parts[1]) * 60 + TsPartValue(ts_parts[2])
                  ELSE IF Len(ts_parts) = 3
                  THEN TsPartValue(ts_parts[1]) * 3600
                           + TsPartValue(ts_parts[2]) * 60
                           + TsPartValue(ts_parts[3])
                  ELSE -1
           /\ (/\ ts_arg # None
               /\ Len(ts_parts) \in {2, 3}
               /\ AllParts(TsPartIsDigits))
              => ts_secs[1] >= 0

\* C16 witness: the call returned 0 for 0:0 in brackets
C16_Witness ==
    /\ pc = "ts_done"
    /\ ts_parts = << <<"0">>, <<"0">> >>
    /\ ts_arg = <<"[", "0", ":", "0", "]">>
    /\ ts_secs = <<0>>

\* four integer parts, and three parts of which one is no integer, gave -1
C16_WitnessOtherCount ==
    /\ pc = "ts_done"
    /\ Len(ts_parts) = 4
    /\ AllParts(TsPartIsInt)
    /\ ts_secs = <<-1>>

C16_WitnessNonInteger ==
    /\ pc = "ts_done"
    /\ Len(ts_parts) = 3
    /\ ts_parts[2] = <<"1", ".", "5">>
    /\ ts_secs = <<-1>>

\* int() accepts a sign: the parts 0 and -1 are integers and give the -1 of
\* an unknown timestamp
TsSignedPartGivesSentinel ==
    /\ pc = "ts_done"
    /\ ts_parts = << <<"0">>, <<"-", "1">> >>
    /\ ts_secs = <<-1>>

(***************************************************************************)
(* Further properties of the renderers.                                    *)
(***************************************************************************)
\* the number of cues emitted so far
Cues == Len(lines) \div 4

\* the start and the end of cue i in seconds, read from its timing line
\* "HH:MM:SS,mmm --> HH:MM:SS,mmm"
CueStartOut(i) == _ts_to_secs(SubSeq(lines[4 * i - 2], 1, 8))

CueEndOut(i) == _ts_to_secs(SubSeq(lines[4 * i - 2], 18, 25))

\* C17: every cue emitted by to_srt ends at least one second after it
\* starts; when the timestamp of the next segment is strictly later, the cue
\* ends no later than the next cue starts; so a cue ends after the start of
\* the next one only when the next timestamp is equal or earlier.
C17_CuesDoNotOverlap ==
    pc \in {"to_srt", "srt_done"} =>
        \A i \in 1..Cues :
            /\ Len(lines[4 * i - 2]) = 29
            /\ CueStartOut(i) = CueStart(rsegs[i])
            /\ CueEndOut(i) >= CueStartOut(i) + 1
            /\ i < Cues =>
                   /\ CueStart(rsegs[i + 1]) > CueStart(rsegs[i])
                          => CueEndOut(i) <= CueStartOut(i + 1)
                   /\ CueEndOut(i) > CueStartOut(i + 1)
                          => CueStart(rsegs[i + 1]) <= CueStart(rsegs[i])

\* C17 witness: three cues; the second starts one second after the first,
\* which ends where the second starts; the third starts before the second,
\* which ends after the third starts
C17_Witness ==
    /\ pc = "srt_done"
    /\ Cues = 3
    /\ CueStart(rsegs[2]) = CueStart(rsegs[1]) + 1
    /\ CueEndOut(1) = CueStartOut(2)
    /\ CueStart(rsegs[3]) < CueStart(rsegs[2])
    /\ CueEndOut(2) > CueStartOut(3)

(***************************************************************************)
(* Properties of main of Merging_m3u8.py.                                  *)
(***************************************************************************)
\* the runs of ffmpeg on playlist p, in order
RunsOn(p) == SelectSeq(merge_tried, LAMBDA r : r.m3u8 = p)

AllFailed(runs) == \A k \in 1..Len(runs) : ~runs[k].ok

\* the strategies main may try on one playlist, in order, when each fails
Chain ==
    <<"copy">> \o (IF mp4 THEN <<"ts">> ELSE <<>>)
        \o (IF reencode THEN <<"reencode">> ELSE <<>>)

\* the runs on one playlist follow the chain: strategy k of the chain is
\* run k, and every run but the last has failed
FollowsChain(runs) ==
    /\ Len(runs) <= Len(Chain)
    /\ \A k \in 1..Len(runs) :
           /\ runs[k].how = Chain[k]
           /\ k < Len(runs) => ~runs[k].ok

\* the playlists the loop has finished that are failures: every strategy
\* tried on them failed
FailedPlaylists == {k \in 1..done : AllFailed(RunsOn(m3u8s[k]))}

\* C19: the playlists are tried in sorted order, and at the end of the loop
\* every matched playlist has been tried, failures of earlier ones or not;
\* on each playlist the strategies are tried in the order stream copy, TS
\* copy (MP4 mode only), re-encode (with --reencode only), each only after
\* the one before it failed, and a finished playlist either succeeded on
\* its last run or went through the whole chain; failures counts exactly
\* the finished playlists whose every run failed; and the exit status is 2
\* exactly when failures is not zero.
C19_LinearFallback ==
    pc \in {"merge_copy", "merge_ts", "merge_reencode", "merge_end",
            "merge_exited"} =>
        /\ m3u8s = Sorted(globbed)
        /\ \A i, j \in 1..Len(merge_tried) :
               i < j => merge_tried[i].m3u8 <= merge_tried[j].m3u8
        /\ \A k \in 1..Len(m3u8s) :
               LET runs == RunsOn(m3u8s[k])
               IN /\ FollowsChain(runs)
                  /\ k <= done =>
                         /\ runs # <<>>
                         /\ runs[Len(runs)].ok \/ Len(runs) = Len(Chain)
                  /\ k > done + 1 => runs = <<>>
        /\ failures = Cardinality(FailedPlaylists)
        /\ pc \in {"merge_end", "merge_exited"} /\ globbed # {} =>
               done = Len(m3u8s)
        /\ pc = "merge_exited" =>
               /\ merge_exit = <<2>> <=> failures > 0
               /\ merge_exit = <<1>> <=> globbed = {}
               /\ merge_exit = <<0>> <=> (globbed # {} /\ failures = 0)

\* C19 witness: three playlists; every strategy failed on the first, the TS
\* copy saved the second and the re-encode the third; the exit status is 2
C19_Witness ==
    /\ pc = "merge_exited"
    /\ merge_exit = <<2>>
    /\ Len(m3u8s) = 3
    /\ failures = 1
    /\ Len(RunsOn(m3u8s[1])) = 3 /\ AllFailed(RunsOn(m3u8s[1]))
    /\ Len(RunsOn(m3u8s[2])) = 2 /\ RunsOn(m3u8s[2])[2].ok
    /\ Len(RunsOn(m3u8s[3])) = 3 /\ RunsOn(m3u8s[3])[3].ok

\* in TS mode the re-encode follows the failed stream copy at once
C19_WitnessTsMode ==
    /\ pc = "merge_exited"
    /\ ~mp4
    /\ \E k \in 1..Len(m3u8s) :
           /\ Len(RunsOn(m3u8s[k])) = 2
           /\ RunsOn(m3u8s[k])[2].how = "reencode"

(***************************************************************************)
(* Properties of main of PDFUnlock.py.                                     *)
(***************************************************************************)
\* main was given its arguments and an input file that exists
UnlockStarted == ArgsOk(argc) /\ infile_exists

Tries == Len(unlock_tried)

NoneSucceeded == \A k \in 1..Tries : ~MethodOk(unlock_tried[k].msg)

\* the candidate paths Ghostscript was run at, in the order of the runs
PathsTried ==
    LET runs == SelectSeq(unlock_tried,
                          LAMBDA r : r.method = "ghostscript" /\ r.path # 0)
    IN [k \in 1..Len(runs) |-> runs[k].path]

\* the candidate paths up to n that are files, in list order
FilesUpTo(n) == Sorted({p \in gs_files : p <= n})

DefaultTried ==
    \E k \in 1..Tries :
        unlock_tried[k].method = "ghostscript" /\ unlock_tried[k].path = 0

\* C20: with an existing input file, the first method tried is pikepdf, and
\* Ghostscript is run only after pikepdf failed, whatever its message;
\* Ghostscript is run at the candidate paths that are files, in list order,
\* and at no other, and with the default executable only after all of
\* them; no method is tried after one succeeded, and the exit status is 0
\* exactly when the last method tried succeeded; it is 3 exactly when
\* every method of the chain was tried and failed.
C20_UnlockFallback ==
    (pc \in {"unlock_pikepdf", "unlock_gs_paths", "unlock_exited"}
     /\ UnlockStarted) =>
        /\ \A k \in 1..Tries :
               /\ unlock_tried[k].method = "pikepdf" <=> k = 1
               /\ k < Tries => ~MethodOk(unlock_tried[k].msg)
        /\ PathsTried = FilesUpTo(IF DefaultTried THEN NumCommonPaths
                                  ELSE path_idx)
        /\ DefaultTried =>
               /\ unlock_tried[Tries].path = 0
               /\ pc = "unlock_exited"
        /\ pc = "unlock_exited" =>
               /\ Tries >= 1
               /\ unlock_exit \in {<<0>>, <<3>>}
               /\ unlock_exit = <<0>> <=> MethodOk(unlock_tried[Tries].msg)
               /\ unlock_exit = <<3>> <=> NoneSucceeded
               /\ unlock_exit = <<3>> =>
                      /\ DefaultTried
                      /\ Tries = 2 + Cardinality(gs_files)
        /\ pc # "unlock_exited" => NoneSucceeded /\ unlock_exit = <<>>

\* C20 witness: pikepdf met a wrong password, Ghostscript failed at the two
\* candidate paths that are files and with the default executable: exit 3
C20_Witness ==
    /\ pc = "unlock_exited"
    /\ UnlockStarted
    /\ unlock_exit = <<3>>
    /\ unlock_tried[1].msg = "wrong_password"
    /\ Cardinality(gs_files) = 2
    /\ Len(PathsTried) = 2
    /\ PathsTried[1] < PathsTried[2]
    /\ DefaultTried

\* Ghostscript succeeded at the second candidate that is a file: exit 0,
\* and neither a later candidate nor the default executable was tried
C20_WitnessFirstSuccess ==
    /\ pc = "unlock_exited"
    /\ UnlockStarted
    /\ unlock_exit = <<0>>
    /\ Len(PathsTried) = 2
    /\ \E p \in gs_files : p > PathsTried[2]
    /\ ~DefaultTried

\* without its arguments or its input file main tries no method: it exits
\* with status 2 or 1
UnlockNotStarted ==
    (pc = "unlock_exited" /\ ~UnlockStarted) =>
        /\ Tries = 0
        /\ unlock_exit = IF ~ArgsOk(argc) THEN <<2>> ELSE <<1>>

====
